---- MODULE Spec2Model ----
(***************************************************************************)
(* The ingestion and query handlers of the RAG knowledge engine            *)
(* ("Main Webpage/app.py") with the helper pipeline they call              *)
(* ("Main Webpage/loading_doc_helper.py").                                 *)
(*                                                                         *)
(* Strings the code inspects (file names, URLs, caption codes) are         *)
(* sequences of tokens: an alphanumeric word, or one of the separators     *)
(* ".", "/", " ", "_", or a URL scheme such as "https://".                 *)
(* None and the empty list are both the empty sequence: the code only      *)
(* tests them for truth.                                                   *)
(***************************************************************************)
EXTENDS Naturals, Sequences, FiniteSets

\* Number of request slots of the web tier that may be in flight together.
MaxReq == 2
\* Largest number of chunks the splitter yields for one source.
MaxChunks == 2
\* Largest number of captions a video offers.
MaxCaps == 2

Req == 1..MaxReq

VARIABLES
    store,             \* the MongoDB collection: a set of records
    staging,           \* the upload folder: path -> request whose bytes it holds, 0 = no file
    captions,          \* environment: the captions the video behind the YouTube URL offers
    pc,                \* per request: position in ingest()
    upload,            \* per request: whether the form carries a file part
    source_path,       \* per request: local of ingest()
    source_name,       \* per request: local of ingest()
    source_data,       \* per request: local of ingest(), the loader's documents
    chunks,            \* per request: number of chunks split_text returned
    uploaded,          \* per request: chunks the index write has committed so far
    outcome,           \* per request: how the request ended (the flashed status)
    calls,             \* per request: pipeline steps the request has invoked
    yt,                \* per request: what load_youtube did
    racing,            \* history: sources first written while another request for
                       \* them was past the duplicate check
    query              \* the last question served by home()

vars == <<store, staging, captions, pc, upload, source_path, source_name, source_data,
          chunks, uploaded, outcome, calls, yt, racing, query>>

ingestVars == <<store, staging, captions, pc, upload, source_path, source_name,
                source_data, chunks, uploaded, outcome, calls, yt, racing>>

----------------------------------------------------------------------------
(* String helpers on token sequences                                       *)

RECURSIVE SeqFilter(_, _)
SeqFilter(s, keep) ==
    IF s = <<>> THEN <<>>
    ELSE IF Head(s) \in keep THEN <<Head(s)>> \o SeqFilter(Tail(s), keep)
    ELSE SeqFilter(Tail(s), keep)

Range(s) == {s[i] : i \in 1..Len(s)}

\* str.strip(): leading and trailing whitespace removed.
RECURSIVE LStrip(_, _)
LStrip(s, drop) ==
    IF s # <<>> /\ Head(s) \in drop THEN LStrip(Tail(s), drop) ELSE s

RECURSIVE RStrip(_, _)
RStrip(s, drop) ==
    IF s # <<>> /\ s[Len(s)] \in drop THEN RStrip(SubSeq(s, 1, Len(s) - 1), drop) ELSE s

Strip(s, drop) == RStrip(LStrip(s, drop), drop)

\* str.endswith('.pdf')
EndsWithPdf(s) == Len(s) >= 2 /\ s[Len(s) - 1] = "." /\ s[Len(s)] = "pdf"

\* str.startswith('https://')
StartsWithHttps(s) == s # <<>> /\ Head(s) = "https://"

\* 'youtube.com' in s or 'youtu.be' in s
IsYoutube(s) == "youtube.com" \in Range(s) \/ "youtu.be" \in Range(s)

Words == {"a", "b", "pdf", "txt", "uploads", "v", "p", "ex.org", "youtube.com"}

\* "_".join(name.split()) after every path separator became a blank.
RECURSIVE JoinWords(_, _)
JoinWords(s, pendingGap) ==
    IF s = <<>> THEN <<>>
    ELSE IF Head(s) \in {" ", "/"} THEN JoinWords(Tail(s), TRUE)
    ELSE (IF pendingGap THEN <<"_">> ELSE <<>>) \o <<Head(s)>> \o JoinWords(Tail(s), FALSE)

\* werkzeug.utils.secure_filename
secure_filename(filename) ==
    LET joined == JoinWords(LStrip(filename, {" ", "/"}), FALSE)
        ascii  == SeqFilter(joined, Words \cup {".", "_", "-"})
    IN  Strip(ascii, {".", "_"})

UPLOAD_FOLDER == <<"uploads">>

\* os.path.join(app.config['UPLOAD_FOLDER'], name)
PathJoin(dir, name) ==
    IF name # <<>> /\ Head(name) = "/" THEN name ELSE dir \o <<"/">> \o name

----------------------------------------------------------------------------
(* Inputs                                                                  *)

\* What a client may submit to /ingest: the uploaded file's name (empty: no
\* file part) and the source_url field.
Forms ==
    { [file |-> <<"a", ".", "pdf">>,                url |-> <<>>],
      [file |-> <<".", ".", "/", "a", ".", "pdf">>, url |-> <<>>],
      [file |-> <<>>, url |-> <<"https://", "youtube.com", "/", "v">>],
      [file |-> <<>>, url |-> <<"https://", "ex.org", "/", "p", " ">>],
      [file |-> <<>>, url |-> <<"http://", "ex.org", "/", "p">>],
      [file |-> <<>>, url |-> <<"https://", "ex.org", "/", "a", ".", "pdf">>],
      [file |-> <<>>, url |-> <<" ">>] }

\* Caption codes, split at the dots: "a.en" is <<"a", "en">>.
A_EN == <<"a", "en">>
EN == <<"en">>
Codes == {A_EN, EN, <<"es">>, <<"a", "ja">>}

\* The caption tracks a video may offer, in the order the site lists them.
CaptionLists ==
    {c \in UNION {[1..n -> Codes] : n \in 0..MaxCaps} :
        \A i, j \in 1..Len(c) : c[i] = c[j] => i = j}

\* Raw SRT texts: index lines, time-range lines, blank lines and spoken lines.
SrtTexts == { <<"1", "-->", "hola", "">>, <<"1", "-->", "">> }

\* The paths a staged upload may have.
StagePaths ==
    {PathJoin(UPLOAD_FOLDER, secure_filename(f.file)) : f \in {g \in Forms : g.file # <<>>}}

----------------------------------------------------------------------------
(* loading_doc_helper.py                                                   *)

\* A LangChain Document: the metadata the pipeline reads, and the number of
\* chunks the splitter cuts its text into (0: the text is empty).
Doc(src, n, titled, lang) ==
    [source |-> src, size |-> n, title |-> titled, original_language |-> lang]

\* The lists of documents a loader library may return for a source.
LoaderDocs(src, titled) ==
    {<<Doc(src, n, titled, <<>>)>> : n \in 0..MaxChunks}
    \cup {<<Doc(src, 0, titled, <<>>), Doc(src, MaxChunks, titled, <<>>)>>}

clean_srt_captions(srt_text) ==
    SeqFilter(srt_text, Range(srt_text) \ {"", "1", "-->"})

\* The request is past the duplicate check and has not returned.
InWindow(q) ==
    pc[q] \in {"save", "load_pdf", "cleanup", "cleanup_raised", "load", "split", "upload"}

\* Mutant: the lookup filters on a metadata field other than `source`.
check_wrong_field(source) ==
    \E rec \in store : rec.original_language = source

\* Mutant: the lookup also counts the sources of requests still in flight, as
\* a reservation taken at the check would.
check_with_reservation(source) ==
    \/ \E rec \in store : rec.source = source
    \/ \E q \in Req : InWindow(q) /\ source_name[q] = source

check_if_source_exists(source) ==
    \E rec \in store : rec.source = source

\* translate_to_english: the translator's text for `text`, or None when the
\* translator raised. `reply` is what the translation service does.
translate_to_english(text, src_lang, reply) ==
    IF reply = "raise" THEN <<>> ELSE IF reply = "empty" THEN <<>> ELSE <<"text">>

load_pdf(path, pages) ==
    IF ~EndsWithPdf(path) THEN <<>> ELSE pages

\* Mutant: the manual English track is preferred to the auto-generated one.
SelectCaptionManualFirst(caps) ==
    IF EN \in Range(caps) THEN EN
    ELSE IF A_EN \in Range(caps) THEN A_EN
    ELSE IF Len(caps) > 0 THEN caps[1]
    ELSE <<>>

\* The caption load_youtube picks: <<>> when the video offers none.
SelectCaption(caps) ==
    IF A_EN \in Range(caps) THEN A_EN
    ELSE IF EN \in Range(caps) THEN EN
    ELSE IF Len(caps) > 0 THEN caps[1]
    ELSE <<>>

\* Mutant: the code goes to the translator as it is.
CleanLangCodeKept(code) == code

\* The code handed to the translator.
CleanLangCode(code) ==
    IF Len(code) >= 2 /\ Head(code) = "a" THEN <<code[Len(code)]>> ELSE code

NoYt == [listed |-> FALSE, selected |-> <<>>, translateCalls |-> 0, src_lang |-> <<>>,
         reply |-> "none"]

\* load_youtube on a video offering `caps`, whose chosen track downloads as
\* `srt`, with the translator answering `reply`; `fault`: pytubefix raised.
\* Returns the documents (<<>> for None) and what the call did.
load_youtube(source_url, caps, srt, reply, fault) ==
    LET caption   == SelectCaption(caps)
        processed == clean_srt_captions(srt)
        translate == caption \notin {EN, A_EN}
        final     == IF translate
                     THEN translate_to_english(processed, CleanLangCode(caption), reply)
                     ELSE processed
    IN  IF fault THEN [docs |-> <<>>, did |-> NoYt]
        ELSE IF caption = <<>> THEN [docs |-> <<>>, did |-> [NoYt EXCEPT !.listed = TRUE]]
        ELSE [docs |-> IF final = <<>> THEN <<>>
                       ELSE <<Doc(source_url, 1, TRUE, caption)>>,
              did  |-> [listed |-> TRUE, selected |-> caption,
                        translateCalls |-> IF translate THEN 1 ELSE 0,
                        src_lang |-> IF translate THEN CleanLangCode(caption) ELSE <<>>,
                        reply |-> IF translate THEN reply ELSE "none"]]

\* Mutant: the scheme is not looked at.
load_link_any_scheme(source_url, pages) ==
    [docs |-> pages, fetched |-> TRUE]

\* load_link: the documents returned (<<>> for None), `pages` being what the
\* web fetcher would load, and whether the fetcher was constructed and called.
load_link(source_url, pages) ==
    IF ~StartsWithHttps(source_url)
    THEN [docs |-> <<>>, fetched |-> FALSE]
    ELSE [docs |-> pages, fetched |-> TRUE]

\* split_text: every document contributes `size` chunks carrying its metadata.
RECURSIVE split_text(_)
split_text(docs) ==
    IF docs = <<>> THEN <<>>
    ELSE [i \in 1..Head(docs).size |-> Head(docs)] \o split_text(Tail(docs))

\* The record the vector store keeps for chunk number i of a request's upload:
\* the chunk's metadata, flattened (writer and chunk stand for the record's _id).
Record(chunk, r, i) ==
    [source |-> chunk.source, title |-> chunk.title,
     original_language |-> chunk.original_language, writer |-> r, chunk |-> i]

----------------------------------------------------------------------------
(* app.py: ingest()                                                        *)

Errors == {"error_nofile", "error_save", "error_load", "error_empty",
           "error_split", "error_upload"}

Outcomes == {"none", "no_input", "duplicate", "success", "unhandled"} \cup Errors

\* The staged file's path: os.path.join(app.config['UPLOAD_FOLDER'], source_path).
filepath(r) == PathJoin(UPLOAD_FOLDER, source_path[r])

\* The request returns: its locals are gone, its status is flashed.
Finish(r, o) ==
    /\ pc' = [pc EXCEPT ![r] = "done"]
    /\ outcome' = [outcome EXCEPT ![r] = o]
    /\ source_data' = [source_data EXCEPT ![r] = <<>>]

\* Lines 160-176: the form is read and the source named.
Receive(r) ==
    /\ pc[r] = "idle"
    /\ \E f \in Forms :
        LET url == Strip(f.url, {" "})
            sp  == IF f.file # <<>> THEN secure_filename(f.file) ELSE url
            sn  == IF f.file # <<>> THEN PathJoin(UPLOAD_FOLDER, sp) ELSE url
        IN  /\ upload' = [upload EXCEPT ![r] = (f.file # <<>>)]
            /\ source_path' = [source_path EXCEPT ![r] = sp]
            /\ source_name' = [source_name EXCEPT ![r] = sn]
            /\ IF sp = <<>>
               THEN Finish(r, "no_input")
               ELSE /\ pc' = [pc EXCEPT ![r] = "guard"]
                    /\ UNCHANGED <<outcome, source_data>>
    /\ UNCHANGED <<store, staging, captions, chunks, uploaded, calls, yt, racing, query>>

\* Line 181, the store cannot be reached: find_one raises outside the try block.
GuardRaises(r) ==
    /\ pc[r] = "guard"
    /\ Finish(r, "unhandled")
    /\ UNCHANGED <<store, staging, captions, upload, source_path, source_name,
                   chunks, uploaded, calls, yt, racing, query>>

\* Lines 181-183: the source is already indexed.
GuardDuplicate(r) ==
    /\ pc[r] = "guard"
    /\ check_if_source_exists(source_name[r])
    /\ Finish(r, "duplicate")
    /\ UNCHANGED <<store, staging, captions, upload, source_path, source_name,
                   chunks, uploaded, calls, yt, racing, query>>

\* Lines 181-189: the source is new; the request enters the try block and
\* dispatches on the source's kind.
GuardPass(r) ==
    /\ pc[r] = "guard"
    /\ ~check_if_source_exists(source_name[r])
    /\ IF EndsWithPdf(source_path[r])
       THEN IF ~upload[r]
            THEN Finish(r, "error_nofile")
            ELSE /\ pc' = [pc EXCEPT ![r] = "save"]
                 /\ UNCHANGED <<outcome, source_data>>
       ELSE /\ pc' = [pc EXCEPT ![r] = "load"]
            /\ UNCHANGED <<outcome, source_data>>
    /\ UNCHANGED <<store, staging, captions, upload, source_path, source_name,
                   chunks, uploaded, calls, yt, racing, query>>

\* Lines 190-191: file.save(filepath). The save may fail before the file is
\* opened, or after some of its bytes are written.
SaveUpload(r) ==
    /\ pc[r] = "save"
    /\ calls' = [calls EXCEPT ![r] = @ \cup {"save"}]
    /\ \E res \in {"saved", "not_opened", "partly_written"} :
        /\ staging' = IF res = "not_opened" THEN staging
                      ELSE [staging EXCEPT ![filepath(r)] = r]
        /\ IF res = "saved"
           THEN /\ pc' = [pc EXCEPT ![r] = "load_pdf"]
                /\ UNCHANGED <<outcome, source_data>>
           ELSE Finish(r, "error_save")
    /\ UNCHANGED <<store, captions, upload, source_path, source_name,
                   chunks, uploaded, yt, racing, query>>

\* Lines 192-193: load_pdf(filepath) returns the pages or raises; a file that
\* is no longer there makes it raise.
LoadPdf(r) ==
    /\ pc[r] = "load_pdf"
    /\ calls' = [calls EXCEPT ![r] = @ \cup {"load"}]
    /\ \/ /\ staging[filepath(r)] # 0
          /\ \E pages \in LoaderDocs(filepath(r), FALSE) \cup {<<>>} :
                source_data' = [source_data EXCEPT ![r] = load_pdf(filepath(r), pages)]
          /\ pc' = [pc EXCEPT ![r] = "cleanup"]
       \/ /\ pc' = [pc EXCEPT ![r] = "cleanup_raised"]
          /\ UNCHANGED source_data
    /\ UNCHANGED <<store, staging, captions, upload, source_path, source_name,
                   chunks, uploaded, outcome, yt, racing, query>>

\* Lines 194-196: the finally clause removes whatever file is at filepath.
Cleanup(r) ==
    /\ pc[r] \in {"cleanup", "cleanup_raised"}
    /\ staging' = [staging EXCEPT ![filepath(r)] = 0]
    /\ IF pc[r] = "cleanup_raised"
       THEN Finish(r, "error_load")
       ELSE /\ pc' = [pc EXCEPT ![r] = "split"]
            /\ UNCHANGED <<outcome, source_data>>
    /\ UNCHANGED <<store, captions, upload, source_path, source_name,
                   chunks, uploaded, calls, yt, racing, query>>

\* Lines 199-204: load_youtube or load_link.
LoadUrl(r) ==
    /\ pc[r] = "load"
    /\ IF IsYoutube(source_path[r])
       THEN \E srt \in SrtTexts, reply \in {"text", "empty", "raise"}, fault \in BOOLEAN :
              LET res == load_youtube(source_path[r], captions, srt, reply, fault)
              IN  /\ source_data' = [source_data EXCEPT ![r] = res.docs]
                  /\ yt' = [yt EXCEPT ![r] = res.did]
                  /\ calls' = [calls EXCEPT ![r] = @ \cup {"load"}]
                  /\ pc' = [pc EXCEPT ![r] = "split"]
                  /\ UNCHANGED outcome
       ELSE /\ UNCHANGED yt
            /\ \/ /\ \E pages \in LoaderDocs(source_path[r], TRUE) :
                        LET res == load_link(source_path[r], pages)
                        IN  /\ source_data' = [source_data EXCEPT ![r] = res.docs]
                            /\ calls' = [calls EXCEPT ![r] = @ \cup
                                   (IF res.fetched THEN {"load", "fetch"} ELSE {"load"})]
                  /\ pc' = [pc EXCEPT ![r] = "split"]
                  /\ UNCHANGED outcome
               \/ \* the web fetcher raises
                  /\ load_link(source_path[r], <<>>).fetched
                  /\ calls' = [calls EXCEPT ![r] = @ \cup {"load", "fetch"}]
                  /\ Finish(r, "error_load")
    /\ UNCHANGED <<store, staging, captions, upload, source_path, source_name,
                   chunks, uploaded, racing, query>>

\* Lines 207-212 and embed_and_upload's lines 189-191: nothing extracted is an
\* error; otherwise the documents are split, and an empty list of chunks makes
\* embed_and_upload return at once, after which success is flashed.
Split(r) ==
    /\ pc[r] = "split"
    /\ IF source_data[r] = <<>>
       THEN /\ Finish(r, "error_empty")
            /\ UNCHANGED <<chunks, calls>>
       ELSE \/ /\ calls' = [calls EXCEPT ![r] = @ \cup {"split"}]
               /\ Finish(r, "error_split")
               /\ UNCHANGED chunks
            \/ /\ calls' = [calls EXCEPT ![r] = @ \cup {"split", "upload"}]
               /\ chunks' = [chunks EXCEPT ![r] = split_text(source_data[r])]
               /\ IF split_text(source_data[r]) = <<>>
                  THEN Finish(r, "success")
                  ELSE /\ pc' = [pc EXCEPT ![r] = "upload"]
                       /\ source_data' = [source_data EXCEPT ![r] = <<>>]
                       /\ UNCHANGED outcome
    /\ UNCHANGED <<store, staging, captions, upload, source_path, source_name,
                   uploaded, yt, racing, query>>

\* embed_and_upload lines 195-200: the store client commits the next chunk;
\* after the last one, line 210 flashes success.
UploadBatch(r) ==
    /\ pc[r] = "upload"
    /\ uploaded[r] < Len(chunks[r])
    /\ store' = store \cup {Record(chunks[r][uploaded[r] + 1], r, uploaded[r] + 1)}
    /\ uploaded' = [uploaded EXCEPT ![r] = @ + 1]
    /\ IF uploaded[r] + 1 = Len(chunks[r])
       THEN Finish(r, "success")
       ELSE UNCHANGED <<pc, outcome, source_data>>
    /\ racing' = IF uploaded[r] = 0
                    /\ \E q \in Req \ {r} : InWindow(q) /\ source_name[q] = source_name[r]
                 THEN racing \cup {source_name[r]} ELSE racing
    /\ UNCHANGED <<staging, captions, upload, source_path, source_name,
                   chunks, calls, yt, query>>

\* Mutant: the handler deletes what the failed upload had committed.
UploadFailRollback(r) ==
    /\ pc[r] = "upload"
    /\ Finish(r, "error_upload")
    /\ store' = {rec \in store : rec.writer # r}
    /\ UNCHANGED <<staging, captions, upload, source_path, source_name,
                   chunks, uploaded, calls, yt, racing, query>>

\* Lines 214-216: the write raised; the error is flashed and nothing is undone.
UploadFail(r) ==
    /\ pc[r] = "upload"
    /\ Finish(r, "error_upload")
    /\ UNCHANGED <<store, staging, captions, upload, source_path, source_name,
                   chunks, uploaded, calls, yt, racing, query>>

Ingest(r) ==
    \/ Receive(r)
    \/ GuardRaises(r)
    \/ GuardDuplicate(r)
    \/ GuardPass(r)
    \/ SaveUpload(r)
    \/ LoadPdf(r)
    \/ Cleanup(r)
    \/ LoadUrl(r)
    \/ Split(r)
    \/ UploadBatch(r)
    \/ UploadFail(r)

----------------------------------------------------------------------------
(* app.py: home()                                                          *)

\* k of vector_store.as_retriever(): the passages one retrieval returns at most.
TopK == 4

Sentinel == [title |-> <<"No relevant documents found in knowledge base.">>, url |-> <<>>]

\* os.path.basename(url)
RECURSIVE Basename(_)
Basename(url) ==
    IF "/" \in Range(url) THEN Basename(Tail(url)) ELSE url

\* Lines 134-143: the label shown for one retrieved passage.
SourceLabel(rec) ==
    LET url   == rec.source
        t1    == IF rec.title THEN <<"title">> ELSE <<>>
        t2    == IF t1 = <<>> THEN Basename(url) ELSE t1
        title == IF t2 = <<>> THEN <<"Document Fragment">> ELSE t2
    IN  [title |-> title, url |-> url]

\* Mutant: the list is built from the passages alone.
SourceDocumentsNoSentinel(docs) ==
    {SourceLabel(d) : d \in docs}

\* Lines 128-145: the source list for the retrieved passages.
SourceDocuments(docs) ==
    IF docs = {} THEN {Sentinel} ELSE {SourceLabel(d) : d \in docs}

NoQuery == [question |-> <<>>, answer |-> "None", source_documents |-> {},
            retrieved |-> "none", synthesis |-> 0]

\* Lines 110-155: one request to home().
Ask ==
    /\ \E question \in {<<>>, <<"what">>} :
         IF question = <<>>
         THEN query' = NoQuery
         ELSE \/ \* the retriever raises
                 query' = [question |-> question, answer |-> "sorry",
                           source_documents |-> {}, retrieved |-> "none",
                           synthesis |-> 0]
              \/ \E docs \in SUBSET store :
                   /\ Cardinality(docs) <= TopK
                   /\ \/ \* the language model raises
                         query' = [question |-> question, answer |-> "sorry",
                                   source_documents |-> {},
                                   retrieved |-> IF docs = {} THEN "empty" ELSE "some",
                                   synthesis |-> 1]
                      \/ query' = [question |-> question, answer |-> "answer",
                                   source_documents |-> SourceDocuments(docs),
                                   retrieved |-> IF docs = {} THEN "empty" ELSE "some",
                                   synthesis |-> 1]
    /\ UNCHANGED ingestVars

----------------------------------------------------------------------------
(* Specifications                                                          *)

Fresh ==
    /\ store = {}
    /\ staging = [p \in StagePaths |-> 0]
    /\ upload = [r \in Req |-> FALSE]
    /\ source_path = [r \in Req |-> <<>>]
    /\ source_name = [r \in Req |-> <<>>]
    /\ source_data = [r \in Req |-> <<>>]
    /\ chunks = [r \in Req |-> <<>>]
    /\ uploaded = [r \in Req |-> 0]
    /\ outcome = [r \in Req |-> "none"]
    /\ calls = [r \in Req |-> {}]
    /\ yt = [r \in Req |-> NoYt]
    /\ racing = {}
    /\ query = NoQuery

\* Concurrent ingestion: every request slot is free, and the video behind the
\* YouTube URL offers two captions, neither English.
Init ==
    /\ Fresh
    /\ pc = [r \in Req |-> "idle"]
    /\ captions = << <<"a", "ja">>, <<"es">> >>

Next == \E r \in Req : Ingest(r)

Spec == Init /\ [][Next]_vars

\* Two request slots are in use, the others stay closed.
TwoSlots == pc = [r \in Req |-> IF r <= 2 THEN "idle" ELSE "closed"]

\* Ingestion and questions against the same store.
ServeInit ==
    /\ Fresh
    /\ TwoSlots
    /\ captions = << <<"a", "ja">>, <<"es">> >>

ServeNext == Next \/ Ask

ServeSpec == ServeInit /\ [][ServeNext]_vars

\* Ingestion of a video offering any list of captions.
YtInit ==
    /\ Fresh
    /\ TwoSlots
    /\ captions \in CaptionLists

YtSpec == YtInit /\ [][Next]_vars

----------------------------------------------------------------------------
(* Properties                                                              *)

HasRecord(s) == \E rec \in store : rec.source = s

RecordsOf(r) == {rec \in store : rec.writer = r}

\* The step in which the duplicate check finds the request's source in the store.
C1_DuplicateStep ==
    \A r \in Req :
        (/\ pc[r] = "guard"
         /\ HasRecord(source_name[r])
         /\ pc'[r] # "guard"
         /\ outcome'[r] # "unhandled")
        => /\ pc'[r] = "done"
           /\ outcome'[r] = "duplicate"
           /\ calls'[r] = {}
           /\ store' = store
           /\ staging' = staging

\* A request that ended as a duplicate has invoked nothing and written nothing.
C1_DuplicateClean ==
    \A r \in Req :
        outcome[r] = "duplicate"
        => calls[r] = {} /\ RecordsOf(r) = {} /\ uploaded[r] = 0 /\ chunks[r] = <<>>

\* C1: a request whose source the duplicate check finds in the store ends as
\* a duplicate in that very step: nothing is saved, no loader, splitter or
\* indexer is invoked, and the store and the staging folder are left as they were.
C1_DuplicateRejected == []C1_DuplicateClean /\ [][C1_DuplicateStep]_vars

C1_Witness ==
    \E r \in Req : outcome[r] = "duplicate" /\ HasRecord(source_name[r])

\* C2 (as claimed): after a request ends with "Successfully ingested", the
\* store holds a record whose source is the string the duplicate check used.
C2_SuccessIsIndexed ==
    \A r \in Req : outcome[r] = "success" => HasRecord(source_name[r])

\* C3 (as claimed): the records carrying one source value were all written by
\* a single request.
C3_SingleWriter ==
    \A x, y \in store : x.source = y.source => x.writer = y.writer

\* C3 (amended): two requests have both written records of one source only if
\* the second had passed the duplicate check, and was still in flight, when the
\* first committed its first record.
C3_SingleWriterUnlessRacing ==
    \A x, y \in store :
        (x.source = y.source /\ x.writer # y.writer) => x.source \in racing

C3_Witness ==
    \E r, q \in Req :
        /\ r # q
        /\ source_name[r] = source_name[q]
        /\ outcome[r] = "success" /\ RecordsOf(r) # {}
        /\ outcome[q] = "duplicate"
        /\ source_name[r] \notin racing

\* The step in which a request's check finds no record of its source while
\* another request for the same source is between its own check and its return.
C4_CheckIsUnlocked ==
    \A r \in Req :
        (/\ pc[r] = "guard"
         /\ ~HasRecord(source_name[r])
         /\ \E q \in Req \ {r} : InWindow(q) /\ source_name[q] = source_name[r]
         /\ pc'[r] # "guard"
         /\ outcome'[r] # "unhandled")
        => /\ outcome'[r] # "duplicate"
           /\ pc'[r] \in {"save", "load"} \/ outcome'[r] = "error_nofile"

\* C4: the duplicate check looks at committed records only. A request whose
\* source has no record passes the check even while another request for the
\* same source is between its own check and its write, so both may write.
C4_RaceIsOpen == [][C4_CheckIsUnlocked]_vars

\* C4, the interleaving: both requests passed the check before either wrote,
\* both finished their write, and the store holds every chunk of the source twice.
C4_Witness ==
    \E r, q \in Req :
        /\ r # q
        /\ source_name[r] = source_name[q]
        /\ source_name[r] \in racing
        /\ outcome[r] = "success" /\ outcome[q] = "success"
        /\ chunks[r] # <<>> /\ Len(chunks[r]) = Len(chunks[q])
        /\ \A i \in 1..Len(chunks[r]) :
              /\ Record(chunks[r][i], r, i) \in store
              /\ Record(chunks[q][i], q, i) \in store
              /\ chunks[r][i] = chunks[q][i]

\* C5 (as claimed): once a request that saved an upload has returned, the file
\* it wrote into the staging folder is gone.
C5_StagedFileRemoved ==
    \A r \in Req :
        (pc[r] = "done" /\ "save" \in calls[r]) => staging[filepath(r)] # r

\* C6 (as claimed): no failure leaves a handler uncaught.
C6_EveryFailureCaught ==
    \A r \in Req : outcome[r] # "unhandled"

\* C7: when the index write fails after some chunks were committed, the
\* request ends with an error, fewer chunks than the source has were
\* committed, and exactly those are still in the store under the request's name.
C7_PartialUploadStays ==
    \A r \in Req :
        (outcome[r] = "error_upload" /\ uploaded[r] > 0)
        => /\ pc[r] = "done"
           /\ uploaded[r] < Len(chunks[r])
           /\ RecordsOf(r) = {Record(chunks[r][i], r, i) : i \in 1..uploaded[r]}
           /\ Cardinality(RecordsOf(r)) = uploaded[r]

C7_Witness ==
    \E r \in Req :
        /\ outcome[r] = "error_upload"
        /\ uploaded[r] > 0
        /\ RecordsOf(r) # {}

\* C8: load_youtube picks "a.en" if the video offers it, else "en" if offered,
\* else the first caption, and returns nothing when there is none; when it
\* picked "a.en" or "en" the translator is not called.
C8_CaptionSelection ==
    \A r \in Req :
        yt[r].listed =>
            LET sel     == yt[r].selected
                offered == Range(captions)
            IN  /\ A_EN \in offered => sel = A_EN
                /\ (A_EN \notin offered /\ EN \in offered) => sel = EN
                /\ (A_EN \notin offered /\ EN \notin offered /\ captions # <<>>)
                       => sel = captions[1]
                /\ captions = <<>> =>
                       /\ sel = <<>>
                       /\ source_data[r] = <<>>
                       /\ RecordsOf(r) = {}
                       /\ pc[r] = "done" => outcome[r] = "error_empty"
                /\ sel \in {A_EN, EN} => yt[r].translateCalls = 0

C8_Witness ==
    \E r \in Req :
        /\ yt[r].listed
        /\ yt[r].selected = A_EN
        /\ Len(captions) >= 2
        /\ yt[r].translateCalls = 0
        /\ outcome[r] = "success"

\* The caption code without its auto-generated prefix "a.".
StripAutoPrefix(code) ==
    IF Len(code) >= 2 /\ Head(code) = "a" THEN Tail(code) ELSE code

\* C9: when the picked caption is not English the translator is called once,
\* with the code stripped of its "a." prefix; the one document returned, and
\* every record written from it, carries the unstripped code as
\* original_language; when the translation raises or is empty no document is
\* returned and the request writes nothing.
C9_Translation ==
    \A r \in Req :
        (yt[r].listed /\ yt[r].selected \notin {<<>>, A_EN, EN}) =>
            /\ yt[r].translateCalls = 1
            /\ yt[r].src_lang = StripAutoPrefix(yt[r].selected)
            /\ (yt[r].reply = "text" /\ pc[r] = "split") =>
                   /\ Len(source_data[r]) = 1
                   /\ source_data[r][1].original_language = yt[r].selected
            /\ \A rec \in RecordsOf(r) : rec.original_language = yt[r].selected
            /\ yt[r].reply \in {"raise", "empty"} =>
                   /\ source_data[r] = <<>>
                   /\ RecordsOf(r) = {}
                   /\ pc[r] = "done" => outcome[r] = "error_empty"

C9_Witness ==
    \E r \in Req :
        /\ yt[r].selected = <<"a", "ja">>
        /\ yt[r].src_lang = <<"ja">>
        /\ yt[r].reply = "text"
        /\ \E rec \in RecordsOf(r) : rec.original_language = <<"a", "ja">>

\* C10 (as claimed): a question whose retrieval returns no passages gets an
\* answer from the synthesis step and the one-element sentinel source list.
C10_SentinelAlways ==
    (query.question # <<>> /\ query.retrieved = "empty")
    => /\ query.synthesis = 1
       /\ query.answer # "None"
       /\ query.source_documents = {Sentinel}

\* C10 (amended): such a question always runs the synthesis step and gets a
\* non-null answer; the source list is the sentinel when synthesis returns, and
\* is left empty, beside the apology, when synthesis raises.
C10_SentinelWhenAnswered ==
    (query.question # <<>> /\ query.retrieved = "empty")
    => /\ query.synthesis = 1
       /\ query.answer \in {"answer", "sorry"}
       /\ query.answer = "answer" => query.source_documents = {Sentinel}
       /\ query.answer = "sorry" => query.source_documents = {}

C10_Witness ==
    /\ query.question # <<>>
    /\ query.retrieved = "empty"
    /\ query.answer = "answer"
    /\ query.source_documents = {Sentinel}

\* C11: a URL that goes to load_link and does not start with "https://" is
\* turned away before the web fetcher is constructed or called: nothing is
\* loaded, split or uploaded, the request writes no record, and it ends with
\* the "no text could be extracted" error.
C11_InsecureRejected ==
    \A r \in Req :
        (/\ "load" \in calls[r]
         /\ ~EndsWithPdf(source_path[r])
         /\ ~IsYoutube(source_path[r])
         /\ ~StartsWithHttps(source_path[r]))
        => /\ calls[r] = {"load"}
           /\ source_data[r] = <<>>
           /\ chunks[r] = <<>>
           /\ RecordsOf(r) = {}
           /\ pc[r] \in {"split", "done"}
           /\ pc[r] = "done" => outcome[r] = "error_empty"

C11_Witness ==
    \E r \in Req :
        /\ source_path[r] = <<"http://", "ex.org", "/", "p">>
        /\ calls[r] = {"load"}
        /\ outcome[r] = "error_empty"

\* The request's index write failed after committing at least one chunk.
FailedPartway(q) ==
    outcome[q] = "error_upload" /\ uploaded[q] > 0

\* No other request for the same source is past the duplicate check and still
\* running: every request for it that is yet to be decided is a later one.
NoneInFlight(q) ==
    \A r \in Req \ {q} : source_name[r] = source_name[q] => ~InWindow(r)

\* The chunks of the request's source that store `st` holds no record of.
MissingChunks(q, st) ==
    {i \in 1..Len(chunks[q]) :
        ~\E rec \in st : rec.source = chunks[q][i].source /\ rec.chunk = i}

\* C12 (as claimed): once a request has failed partway through the index
\* write, every request for the same source that reaches the guard afterwards
\* (and whose lookup answers) is rejected as a duplicate, and no step of any
\* request adds a chunk that the failed write left out.
C12_NeverCompleted ==
    [][\A q \in Req :
         FailedPartway(q) =>
            /\ \A r \in Req \ {q} :
                  (/\ source_name[r] = source_name[q]
                   /\ pc[r] = "guard"
                   /\ pc'[r] # "guard"
                   /\ outcome'[r] # "unhandled")
                  => outcome'[r] = "duplicate"
            /\ MissingChunks(q, store') = MissingChunks(q, store)]_vars

\* C12 (amended): once a request has failed partway through the index write,
\* every request for the same source that reaches the guard afterwards (and
\* whose lookup answers) is rejected as a duplicate without writing; when no
\* request for the source that passed the check earlier is still in flight,
\* none gets in flight again and no step adds a chunk the failed write left out.
C12_FailedSourceStaysPartial ==
    [][\A q \in Req :
         FailedPartway(q) =>
            /\ \A r \in Req \ {q} :
                  (/\ source_name[r] = source_name[q]
                   /\ pc[r] = "guard"
                   /\ pc'[r] # "guard"
                   /\ outcome'[r] # "unhandled")
                  => /\ outcome'[r] = "duplicate"
                     /\ store' = store
            /\ NoneInFlight(q) =>
                  /\ NoneInFlight(q)'
                  /\ MissingChunks(q, store') = MissingChunks(q, store)]_vars

C12_Witness ==
    \E q, r \in Req :
        /\ q # r
        /\ FailedPartway(q)
        /\ NoneInFlight(q)
        /\ MissingChunks(q, store) # {}
        /\ source_name[r] = source_name[q]
        /\ outcome[r] = "duplicate"

\* C13: while a request is between saving its upload and the end of load_pdf,
\* the file at its staging path is the one it saved itself: no other request
\* has overwritten it or removed it.
C13_StagedFileIsOwn ==
    \A r \in Req : pc[r] = "load_pdf" => staging[filepath(r)] = r

====
